---- MODULE Spec2Model ----
(***************************************************************************)
(* Model of src/src/tfidf_ranking.py: the TF-IDF aspect ranker             *)
(* (TfidfRanking.get_prediction and its helpers) and the precision-at-1    *)
(* convergence scan (avg_precision).                                       *)
(*                                                                         *)
(* Floats are modelled as exact rationals [num, den] with den > 0.  Every  *)
(* comparison the code makes on the inputs drawn here is decided with a    *)
(* margin far above double rounding error (no comparison is an exact tie   *)
(* except between equal rationals).                                        *)
(***************************************************************************)
EXTENDS Integers, Sequences, FiniteSets, TLC

VARIABLES
    \* ---- avg_precision(p_list, rel_tol) ----
    p_list,      \* the list of p@1 indicators
    rel_tol,     \* the tolerance argument, a rational
    pc,          \* position in avg_precision
    i,           \* the loop variable of line 122
    ap_end,      \* line 121
    map,         \* line 127
    log,         \* what logger.info has written, in order
    exc,         \* the exception that left avg_precision, or "none"
    \* ---- TfidfRanking ----
    wiki_dict,   \* self.wiki_dict
    model,       \* self.model (the loaded vectorizer)
    call,        \* arguments of the last get_prediction call
    outcome,     \* how the last get_prediction call ended
    error_log,   \* what self.logger.error has written, in order
    earlier      \* a remembered earlier call and its outcome

evalVars == <<p_list, rel_tol, pc, i, ap_end, map, log, exc>>
rankVars == <<wiki_dict, model, call, outcome, error_log, earlier>>
vars == <<p_list, rel_tol, pc, i, ap_end, map, log, exc,
          wiki_dict, model, call, outcome, error_log, earlier>>

-----------------------------------------------------------------------------
(* Bounds *)

\* longest explicit 0/1 tail appended after the first StartIdx - 1 elements
MaxTail == 3
\* length of the run of ones in the long inputs
LongOnes == 272
\* get_prediction is called while the error log is shorter than this
MaxErrorLog == 3

-----------------------------------------------------------------------------
(* Rationals *)

Rat(n, d) == [num |-> n, den |-> d]
None == Rat(0, 1)

RatEq(x, y) == x.num * y.den = y.num * x.den
\* x <= y, denominators positive
RatLeq(x, y) == x.num * y.den <= y.num * x.den
\* x / y for y # 0, with x, y >= 0
RatDiv(x, y) == Rat(x.num * y.den, x.den * y.num)
\* abs(x - 1)
AbsMinusOne(x) ==
    IF x.num >= x.den THEN Rat(x.num - x.den, x.den) ELSE Rat(x.den - x.num, x.den)

-----------------------------------------------------------------------------
(* avg_precision *)

\* a scan that starts at the first index with three windows
StartIdxShifted == 1 + 1
\* range(100, len(p_list)) starts here
StartIdx == 100

\* the default of the rel_tol parameter, 1e-03
DefaultTol == Rat(1, 1000)

RECURSIVE SumRange(_, _, _)
\* s[lo] + ... + s[hi], split in halves to keep the evaluation shallow
SumRange(s, lo, hi) ==
    IF lo > hi THEN 0
    ELSE IF lo = hi THEN s[lo]
    ELSE LET mid == (lo + hi) \div 2
         IN SumRange(s, lo, mid) + SumRange(s, mid + 1, hi)

\* the builtin sum
sum(s) == SumRange(s, 1, Len(s))

\* p_list[:k]
Prefix(s, k) == SubSeq(s, 1, k)

\* sum(p_list[:k]) / k as the code computes it (k > 0 at every use)
Avg(s, k) == Rat(sum(Prefix(s, k)), k)

\* the test of line 126, for ap_current # 0
Converged(last, current, next, tol) ==
    /\ RatLeq(AbsMinusOne(RatDiv(last, current)), tol)
    /\ RatLeq(AbsMinusOne(RatDiv(next, current)), tol)

Msg(m, at, ap) == [msg |-> m, at |-> at, ap |-> ap]

\* line 121: ap_end = sum(p_list) / len(p_list); raises on the empty list
Entry ==
    /\ pc = "entry"
    /\ IF Len(p_list) = 0
          THEN /\ exc' = "ZeroDivisionError"
               /\ pc' = "raised"
               /\ UNCHANGED <<ap_end, i>>
          ELSE /\ ap_end' = Rat(sum(p_list), Len(p_list))
               /\ i' = StartIdx
               /\ pc' = "loop"
               /\ exc' = exc
    /\ UNCHANGED <<p_list, rel_tol, map, log>>
    /\ UNCHANGED rankVars

\* lines 122-130: one iteration of the for loop
LoopBody ==
    /\ pc = "loop"
    /\ i < Len(p_list)
    /\ LET ap_next    == Avg(p_list, i + 1)
           ap_current == Avg(p_list, i)
           ap_last    == Avg(p_list, i - 1)
       IN IF ap_current.num = 0
             THEN \* ap_last/ap_current divides by zero
                  /\ exc' = "ZeroDivisionError"
                  /\ pc' = "raised"
                  /\ UNCHANGED <<i, map, log>>
             ELSE IF Converged(ap_last, ap_current, ap_next, rel_tol)
                     THEN /\ map' = ap_current
                          /\ log' = log \o <<Msg("converged at", i, ap_current),
                                             Msg("AP at 1", i, ap_current)>>
                          /\ pc' = "final"
                          /\ UNCHANGED <<i, exc>>
                     ELSE /\ i' = i + 1
                          /\ UNCHANGED <<map, log, pc, exc>>
    /\ UNCHANGED <<p_list, rel_tol, ap_end>>
    /\ UNCHANGED rankVars

\* lines 131-133: the else branch of the for loop (no break)
LoopElse ==
    /\ pc = "loop"
    /\ i >= Len(p_list)
    /\ log' = log \o <<Msg("does not converge", 0, None),
                       Msg("AP at 1", 0, ap_end)>>
    /\ pc' = "final"
    /\ UNCHANGED <<p_list, rel_tol, i, ap_end, map, exc>>
    /\ UNCHANGED rankVars

\* a final report that prefers the converged average
FinalLogConverged ==
    /\ pc = "final"
    /\ log' = Append(log, Msg("final AP at 1", 0,
                              IF log[1].msg = "converged at" THEN map ELSE ap_end))
    /\ pc' = "done"
    /\ UNCHANGED <<p_list, rel_tol, i, ap_end, map, exc>>
    /\ UNCHANGED rankVars

\* line 134
FinalLog ==
    /\ pc = "final"
    /\ log' = Append(log, Msg("final AP at 1", 0, ap_end))
    /\ pc' = "done"
    /\ UNCHANGED <<p_list, rel_tol, i, ap_end, map, exc>>
    /\ UNCHANGED rankVars

(* the indicator lists avg_precision is applied to *)
Rep(x, n) == [k \in 1..n |-> x]
Alt(n) == [k \in 1..n |-> k % 2]

RECURSIVE BitSeqs(_)
BitSeqs(n) ==
    IF n = 0 THEN {<<>>}
    ELSE BitSeqs(n - 1) \cup
         {Append(t, b) : t \in {u \in BitSeqs(n - 1) : Len(u) = n - 1}, b \in {0, 1}}

ShortLists ==
    UNION {{Rep(1, a) \o Rep(0, n - a) : a \in 0..n} : n \in 0..(StartIdx - 1)}
NearLists ==
    {Rep(1, a) \o Rep(0, StartIdx - 1 - a) \o t :
        a \in 0..(StartIdx - 1), t \in BitSeqs(MaxTail)}
LongLists ==
    {Rep(0, z) \o Rep(1, LongOnes) : z \in {StartIdx - 1, StartIdx}}
AltLists == {Alt(n) : n \in 1..(StartIdx + MaxTail)}

PLists == ShortLists \cup NearLists \cup LongLists \cup AltLists
Tols == {DefaultTol, Rat(1, 10)}

InitEval ==
    /\ p_list \in PLists
    /\ rel_tol \in Tols
    /\ pc = "entry"
    /\ i = 0
    /\ ap_end = None
    /\ map = None
    /\ log = <<>>
    /\ exc = "none"

InitEvalIdle ==
    /\ p_list = <<>>
    /\ rel_tol = DefaultTol
    /\ pc = "idle"
    /\ i = 0
    /\ ap_end = None
    /\ map = None
    /\ log = <<>>
    /\ exc = "none"

-----------------------------------------------------------------------------
(* TfidfRanking *)

\* Strings the code transforms are sequences of characters; texts are
\* sequences of tokens; aspect labels and tokens are atoms.

Lower(c) == CASE c = "A" -> "a" [] c = "B" -> "b" [] c = "C" -> "c" [] OTHER -> c

\* entity.replace('_', ' ').lower()
Normalize(entity) ==
    [k \in 1..Len(entity) |-> Lower(IF entity[k] = "_" THEN " " ELSE entity[k])]

\* lines 60-62: self.wiki_dict.get(s), None for a missing key
get_aspects_dict(entity) ==
    LET s == Normalize(entity)
    IN IF s \in DOMAIN wiki_dict
          THEN [is_none |-> FALSE, items |-> wiki_dict[s]]
          ELSE [is_none |-> TRUE, items |-> <<>>]

\* the terms of the fitted vectorizer, in column order
Vocabulary == <<"war", "film">>

\* nlp_preprocessing.nlp_pipeline: cleans each text, keeps their order
nlp_pipeline(text) ==
    [k \in 1..Len(text) |-> SelectSeq(text[k], LAMBDA tok : tok # "the")]

Count(t, tok) == Cardinality({k \in 1..Len(t) : t[k] = tok})

\* self.model.transform: one tf*idf row per text, in order; a list of no
\* texts has no rows and the transformer rejects it with a ValueError
transform(m, text) ==
    IF Len(text) = 0
       THEN [raised |-> "ValueError", matrix |-> <<>>]
       ELSE [raised |-> "none",
             matrix |-> [k \in 1..Len(text) |->
                           [c \in 1..Len(Vocabulary) |->
                              Count(text[k], Vocabulary[c]) * m[c]]]]

\* lines 64-71
get_tfidf(text) == transform(model, nlp_pipeline(text))

\* every item is a candidate
CandidatesKeepLead(items) == items

RECURSIVE Candidates(_)
\* lines 74-79: the loop over .items(), 'lead_paragraphs' skipped
Candidates(items) ==
    IF items = <<>> THEN <<>>
    ELSE LET rest == Candidates(Tail(items))
         IN IF Head(items).k # "lead_paragraphs" THEN <<Head(items)>> \o rest ELSE rest

\* lines 73-81; None.items() raises AttributeError, get_tfidf may raise
get_aspects_vect(entity) ==
    LET d == get_aspects_dict(entity)
        c == Candidates(d.items)
        y_aspects == [k \in 1..Len(c) |-> c[k].k]
        y_content == [k \in 1..Len(c) |-> c[k].v.content]
        y_feature == get_tfidf(y_content)
    IN IF d.is_none
          THEN [raised |-> "AttributeError", y_aspects |-> <<>>, y_feature |-> <<>>]
          ELSE [raised |-> y_feature.raised, y_aspects |-> y_aspects,
                y_feature |-> y_feature.matrix]

Dot(a, b) == sum([k \in 1..Len(a) |-> a[k] * b[k]])

\* the square of the cosine of two rows with no negative entry (squaring keeps
\* their order); a zero row has similarity 0 with every row
Cosine(x, y) ==
    LET n == Dot(x, x) * Dot(y, y)
    IN IF n = 0 THEN Rat(0, 1) ELSE Rat(Dot(x, y) * Dot(x, y), n)

\* lines 83-84: cosine_similarity(a, b).flatten() for a one-row a
cos_sim(a, b) == [j \in 1..Len(b) |-> Cosine(a[1], b[j])]

RECURSIVE ArgScan(_, _, _)
ArgScan(s, k, best) ==
    IF k > Len(s) THEN best
    ELSE ArgScan(s, k + 1, IF RatLeq(s[k], s[best]) THEN best ELSE k)

RECURSIVE ArgScanLast(_, _, _)
ArgScanLast(s, k, best) ==
    IF k > Len(s) THEN best
    ELSE ArgScanLast(s, k + 1, IF RatLeq(s[best], s[k]) THEN k ELSE best)

ArgMaxLast(s) == ArgScanLast(s, 2, 1)
\* np.argmax: the index of the first occurrence of the maximum
ArgMax(s) == ArgScan(s, 2, 1)

Returns(v) == [kind |-> "return", value |-> v, logged |-> <<>>]
Raises(e) == [kind |-> "raise", value |-> e, logged |-> <<>>]

get_prediction_uncaught(sentence, entity) ==
    LET vect == get_aspects_vect(entity)
        x_feature == get_tfidf(<<sentence>>)
        cos_ranking == cos_sim(x_feature.matrix, vect.y_feature)
    IN IF vect.raised # "none" THEN Raises(vect.raised)
       ELSE Returns(vect.y_aspects[ArgMax(cos_ranking)])

\* lines 86-109: only a ValueError of get_aspects_vect is caught
get_prediction(sentence, entity) ==
    LET vect == get_aspects_vect(entity)
        x_feature == get_tfidf(<<sentence>>)
        cos_ranking == cos_sim(x_feature.matrix, vect.y_feature)
    IN IF vect.raised = "ValueError"
          THEN [kind |-> "return", value |-> "summary",
                logged |-> <<"ValueError", "no proper aspect other than lead section">>]
       ELSE IF vect.raised # "none" THEN Raises(vect.raised)
       ELSE Returns(vect.y_aspects[ArgMax(cos_ranking)])

\* what the observer keeps of an earlier call
Remember(c, o, e) ==
    IF e.set /\ e.call # c
       THEN {[e EXCEPT !.between = TRUE], [set |-> TRUE, call |-> c, outcome |-> o, between |-> FALSE]}
       ELSE IF e.set THEN {e} ELSE {[set |-> TRUE, call |-> c, outcome |-> o, between |-> FALSE]}

\* a get_prediction that consumes the aspect it returns
GetPredictionPop(sentence, entity) ==
    /\ Len(error_log) < MaxErrorLog
    /\ LET o == get_prediction(sentence, entity)
           c == [made |-> TRUE, sentence |-> sentence, entity |-> entity]
           s == Normalize(entity)
       IN /\ call' = c
          /\ outcome' = [kind |-> o.kind, value |-> o.value]
          /\ error_log' = error_log \o o.logged
          /\ earlier' \in Remember(c, outcome', earlier)
          /\ wiki_dict' =
                IF o.kind = "return" /\ o.value # "summary"
                   THEN [wiki_dict EXCEPT ![s] =
                            SelectSeq(wiki_dict[s], LAMBDA it : it.k # o.value)]
                   ELSE wiki_dict
    /\ UNCHANGED model
    /\ UNCHANGED evalVars

\* one call of get_prediction(sentence, entity)
GetPrediction(sentence, entity) ==
    /\ Len(error_log) < MaxErrorLog
    /\ LET o == get_prediction(sentence, entity)
           c == [made |-> TRUE, sentence |-> sentence, entity |-> entity]
       IN /\ call' = c
          /\ outcome' = [kind |-> o.kind, value |-> o.value]
          /\ error_log' = error_log \o o.logged
          /\ earlier' \in Remember(c, outcome', earlier)
    /\ UNCHANGED <<wiki_dict, model>>
    /\ UNCHANGED evalVars

(* the loaded data and the arguments get_prediction is applied to *)
Labels == {"lead_paragraphs", "history", "career"}
Contents == {<<"war">>, <<"war", "the", "war">>, <<"film">>}
LeadContent == <<"the", "war", "film">>
Sentences == {<<"film", "war">>, <<"the">>}
Entities == {<<"A", "_", "B">>, <<"a", " ", "b">>, <<"C">>}
KeyAB == <<"a", " ", "b">>
KeyC == <<"c">>

Entry2(l, t) == [k |-> l, v |-> [content |-> t]]
Entries ==
    {Entry2("lead_paragraphs", LeadContent)} \cup
    {Entry2(l, t) : l \in Labels \ {"lead_paragraphs"}, t \in Contents}
\* a JSON object: its keys are distinct and keep their order
AspectMaps ==
    {s \in UNION {[1..n -> Entries] : n \in 0..Cardinality(Labels)} :
        \A a, b \in 1..Len(s) : a # b => s[a].k # s[b].k}
OtherMaps ==
    { <<Entry2("awards", <<"film">>), Entry2("lead_paragraphs", LeadContent)>>,
      <<Entry2("lead_paragraphs", LeadContent)>> }
WikiDicts ==
    {d1 @@ d2 : d1 \in {<<>>} \cup {KeyAB :> m : m \in AspectMaps},
                d2 \in {<<>>} \cup {KeyC :> m : m \in OtherMaps}}
Models == {<<1, 1>>, <<1, 3>>}

NoCall == [made |-> FALSE, sentence |-> <<>>, entity |-> <<>>]
NoOutcome == [kind |-> "none", value |-> ""]

InitRank ==
    /\ wiki_dict \in WikiDicts
    /\ model \in Models
    /\ call = NoCall
    /\ outcome = NoOutcome
    /\ error_log = <<>>
    /\ earlier = [set |-> FALSE, call |-> NoCall, outcome |-> NoOutcome, between |-> FALSE]
    /\ InitEvalIdle

NextRank == \E sentence \in Sentences, entity \in Entities : GetPrediction(sentence, entity)
SpecRank == InitRank /\ [][NextRank]_vars

InitRankIdle ==
    /\ wiki_dict = <<>>
    /\ model = <<>>
    /\ call = <<>>
    /\ outcome = <<>>
    /\ error_log = <<>>
    /\ earlier = <<>>

Init == InitEval /\ InitRankIdle
Next == Entry \/ LoopBody \/ LoopElse \/ FinalLog
Spec == Init /\ [][Next]_vars

-----------------------------------------------------------------------------
(* Properties of avg_precision, checked under Spec *)

RatLt(x, y) == ~RatLeq(y, x)
Overall == Rat(sum(p_list), Len(p_list))
Ended == pc \in {"done", "raised"}

\* the convergence condition of the claim at index j: both ratios are defined
\* and within the tolerance
HoldsAt(j) ==
    /\ sum(Prefix(p_list, j)) > 0
    /\ Converged(Avg(p_list, j - 1), Avg(p_list, j), Avg(p_list, j + 1), rel_tol)
ConvergingIdx == {j \in 100..(Len(p_list) - 1) : HoldsAt(j)}
Min(S) == CHOOSE x \in S : \A y \in S : x <= y

\* C3: on the empty indicator list evaluate ends with an explicit error, never
\* with the ZeroDivisionError of sum/len.
C3_EmptyFailsExplicitly ==
    (Len(p_list) = 0 /\ pc # "entry") => (pc = "raised" /\ exc # "ZeroDivisionError")

\* C4: for every list longer than 100, the scan checks no index below 100 and,
\* when some index satisfies the convergence condition, the run ends reporting
\* convergence at the smallest such index with the average of its first i
\* elements.
C4_StopsAtFirstConvergingIndex ==
    /\ pc = "loop" => i >= 100
    /\ (Ended /\ Len(p_list) > 100 /\ ConvergingIdx # {}) =>
          /\ pc = "done"
          /\ log[1].msg = "converged at"
          /\ log[1].at = Min(ConvergingIdx)
          /\ RatEq(log[1].ap, Avg(p_list, Min(ConvergingIdx)))

\* C5: on every non-empty list evaluate raises nothing and ends either
\* converged with the current average or not converged with the overall one.
C5_TotalOnNonEmpty ==
    Len(p_list) >= 1 =>
        /\ pc # "raised"
        /\ exc = "none"
        /\ pc = "done" =>
              \/ log[1].msg = "converged at" /\ RatEq(log[2].ap, Avg(p_list, log[1].at))
              \/ log[1].msg = "does not converge" /\ RatEq(log[2].ap, Overall)

\* C6: for a list of 1 to 100 indicators the loop body never runs (the loop
\* variable never passes a guard, nothing is raised) and the result is the
\* overall average, not converged, whatever the tolerance.
C6_ShortNeverConverges ==
    (Len(p_list) >= 1 /\ Len(p_list) <= 100) =>
        /\ pc # "raised" /\ exc = "none"
        /\ pc = "loop" => i >= Len(p_list)
        /\ pc \in {"final", "done"} =>
              /\ log[1] = Msg("does not converge", 0, None)
              /\ log[2].msg = "AP at 1" /\ RatEq(log[2].ap, Overall)
              /\ \A k \in 1..Len(log) : log[k].msg # "converged at"

C6_Witness ==
    /\ pc = "done"
    /\ p_list = Alt(50)
    /\ log[1].msg = "does not converge"
    /\ RatEq(log[2].ap, Rat(1, 2))

\* C9: in every completed run the overall value is sum/len and it is what the
\* last message reports, on the converged and on the not converged path; a
\* converged prefix average never changes it.
C9_OverallIsSumOverLen ==
    /\ pc \in {"loop", "final", "done"} => RatEq(ap_end, Overall)
    /\ pc = "done" =>
          /\ exc = "none"
          /\ log[Len(log)].msg = "final AP at 1"
          /\ RatEq(log[Len(log)].ap, Overall)
          /\ \A k \in 1..(Len(log) - 1) : log[k].msg # "final AP at 1"

C9_Witness ==
    /\ pc = "done"
    /\ log[1].msg = "converged at"
    /\ ~RatEq(map, ap_end)
    /\ RatEq(log[Len(log)].ap, Overall)

-----------------------------------------------------------------------------
(* Properties of get_prediction, checked under SpecRank *)

Key == Normalize(call.entity)
Found == call.made /\ Key \in DOMAIN wiki_dict
\* the aspects of the entity of the last call, without 'lead_paragraphs'
Ranked == SelectSeq(wiki_dict[Key], LAMBDA it : it.k # "lead_paragraphs")
ReturnedSummary == outcome = [kind |-> "return", value |-> "summary"]
\* similarity of the sentence of the last call to the k-th ranked aspect
Similarity(k) ==
    Cosine(get_tfidf(<<call.sentence>>).matrix[1],
           get_tfidf(<<Ranked[k].v.content>>).matrix[1])

\* C1: for an entity whose normalized name is no key of wiki_dict,
\* get_prediction returns "summary" and raises nothing.
C1_AbsentReturnsSummary ==
    (call.made /\ Key \notin DOMAIN wiki_dict) => ReturnedSummary

\* C2: for an entity that is found and has no aspect other than
\* 'lead_paragraphs', get_prediction returns "summary", raises nothing and
\* logs the error it caught.
C2_OnlyLeadReturnsSummary ==
    (Found /\ Ranked = <<>>) => (ReturnedSummary /\ error_log # <<>>)

C2_Witness ==
    /\ Found
    /\ wiki_dict[Key] = <<Entry2("lead_paragraphs", LeadContent)>>
    /\ ReturnedSummary
    /\ error_log # <<>>

\* C7: for an entity that is found and has an aspect other than
\* 'lead_paragraphs', get_prediction returns a key of that entity's mapping
\* that is not 'lead_paragraphs'.
C7_ReturnsOwnRankedLabel ==
    (Found /\ Ranked # <<>>) =>
        /\ outcome.kind = "return"
        /\ \E k \in 1..Len(Ranked) : Ranked[k].k = outcome.value
        /\ outcome.value # "lead_paragraphs"

C7_Witness ==
    /\ Found
    /\ Key = KeyC
    /\ KeyAB \in DOMAIN wiki_dict
    /\ outcome = [kind |-> "return", value |-> "awards"]
    /\ \E k \in 1..Len(wiki_dict[KeyAB]) : wiki_dict[KeyAB][k].k = "history"

\* C8: with a non-empty candidate list get_prediction returns the candidate
\* at the first position of maximal similarity: no candidate is more similar
\* and every earlier one is strictly less similar.
C8_FirstMaximalCandidate ==
    (Found /\ Ranked # <<>>) =>
        /\ outcome.kind = "return"
        /\ \E k \in 1..Len(Ranked) :
              /\ Ranked[k].k = outcome.value
              /\ \A j \in 1..Len(Ranked) : RatLeq(Similarity(j), Similarity(k))
              /\ \A j \in 1..(k - 1) : RatLt(Similarity(j), Similarity(k))

C8_Witness ==
    /\ Found
    /\ Len(Ranked) = 2
    /\ outcome.value = Ranked[1].k
    /\ RatEq(Similarity(1), Similarity(2))
    /\ RatLt(Rat(0, 1), Similarity(1))

\* C10: no get_prediction call changes wiki_dict or model, and a call with the
\* arguments of an earlier call ends as the earlier one did, whatever was
\* called in between.
C10_Pure ==
    /\ []((earlier.set /\ earlier.call = call) => earlier.outcome = outcome)
    /\ [][wiki_dict' = wiki_dict /\ model' = model]_vars

C10_Witness ==
    /\ earlier.set /\ earlier.between
    /\ earlier.call = call
    /\ outcome.kind = "return"
    /\ outcome.value = "history"
    /\ error_log # <<>>

====
